---- MODULE Spec2Model ----
(***************************************************************************)
(* Model of nucypher/network/status/utility/moe_crawler.py:                *)
(* MoeBlockchainCrawler, its two twisted LoopingCall tasks, the errback    *)
(* restart policy, the node sampling cycle with its batched InfluxDB write *)
(* and the contract sampling cycle that publishes the snapshot.            *)
(***************************************************************************)
EXTENDS Integers, Sequences, FiniteSets, TLC

\* ------------------------------------------------------------------ bounds
\* The reactor clock runs over 0..MaxTime (seconds).
MaxTime == 3
\* Moe learns about at most MaxNodes stakers, identified 1..MaxNodes.
MaxNodes == 2
\* A collaborator fails at most MaxFaults times in a row within one operation.
MaxFaults == 2
\* The refresh_rate passed to the constructor (seconds).
refresh_rate == 3

\* --------------------------------------------------------- program constants
\* moe_crawler.py:158  offset = 2  # seconds
offset == 2
\* moe_crawler.py:81  period_range = range(1, 365+1)
NumPeriods == 365
\* LoopingCall.call is None
NoCall == -1
\* moe_crawler.py:36-40
DB_NAME == "network"
DB_RETENTION_POLICY_NAME == "network_info_retention"
DB_RETENTION_POLICY_PERIOD == "5w"
DB_RETENTION_POLICY_REPLICATION == "1"
\* moe_crawler.py:201  timedelta(days=...), time(1d): one day, in clock units
DayLen == 2
\* None, as the value of a query row
Null == -1

VARIABLES
    node_learning_task,      \* LoopingCall(self._learn_about_nodes)
    contract_learning_task,  \* LoopingCall(self._learn_about_contracts)
    restart_on_error,        \* self._restart_on_error
    client,                  \* self._client : "open" or "null" (None)
    snapshot,                \* self.__snapshot : dict
    known_nodes,             \* self._moe.known_nodes, in insertion order
    stored,                  \* points the database accepted in that operation
    now,                     \* reactor clock / latest block time, seconds
    reader_view,             \* what an external reader of .snapshot just saw
    op,                      \* the operation that produced this state
    trace,                   \* events of that operation, in order
    writes,                  \* the write_points calls of that operation
    seen,                    \* values .snapshot took during that operation
    raised,                  \* exception that operation raised to its caller
    databases,               \* the store's databases, as get_list_database lists them
    retention_policies,      \* the store's retention policies
    measurement,             \* the points of moe_network_info in the store
    series                   \* what the last query of MoeCrawlerDBClient returned

vars == <<node_learning_task, contract_learning_task, restart_on_error, client,
          snapshot, known_nodes, stored, now, reader_view, op, trace, writes,
          seen, raised, databases, retention_policies, measurement, series>>

\* The store, beyond the points of one operation.
store_vars == <<databases, retention_policies, measurement, series>>

\* The crawler object and the record of its last operation.
crawler_vars == <<node_learning_task, contract_learning_task, restart_on_error,
                  client, snapshot, known_nodes, stored, reader_view, writes,
                  seen>>

\* -------------------------------------------------- external collaborators
\* agent.blockchain.client.w3.eth.getBlock('latest').timestamp at clock t
getBlock_timestamp(t) == t
\* agent.get_current_period() at clock t (two seconds per period)
get_current_period(t) == t \div 2
\* agent.get_worker_from_staker(staker_address)
get_worker_from_staker(s) == s + 100
\* agent.owned_tokens(staker_address), in tokens
owned_tokens(s) == 10 * s
\* agent.get_locked_tokens(staker_address), in tokens; staker 1 has none locked
get_locked_tokens(s) == 10 * (s - 1)
\* agent.get_last_active_period(staker_address) at clock t
get_last_active_period(s, t) == get_current_period(t)
\* stakes.initial_period / stakes.terminal_period as dates
stake_start_date(s) == s
stake_end_date(s) == s + 30
\* agent.get_all_locked_tokens(day) at clock t
get_all_locked_tokens(t, day) == (t + 1) * 1000 - day

\* ------------------------------------------------------------ the machine
\* A task.LoopingCall: running, the pending delayed call (its due time),
\* starttime, interval, and the number of errbacks attached to the Deferred
\* that start() returned and that is still pending (self._deferred).  A
\* task that is not running has no pending call and no Deferred, and start()
\* overwrites starttime and interval before anything reads them, so the
\* model keeps one value for every stopped task.
LoopingCall == [running |-> FALSE, call |-> NoCall, starttime |-> 0,
                interval |-> 0, errbacks |-> 0]

NoSnapshot == [k \in {} |-> 0]

\* The crawler and its collaborators during one operation.  nf/cf are the
\* numbers of node / contract sampling bodies that will still fail, nkind and
\* cday say where; wfalse makes write_points return False; dur is the time
\* that passes between the lookups of the first and the second participant.
Machine(env) ==
    [node |-> node_learning_task, contract |-> contract_learning_task,
     client |-> client, snapshot |-> snapshot, stored |-> {}, now |-> now,
     trace |-> <<>>, writes |-> <<>>, seen |-> {snapshot}, exc |-> "none",
     nf |-> env.nf, nkind |-> env.nkind, cf |-> env.cf, cday |-> env.cday,
     wfalse |-> env.wfalse, dur |-> env.dur]

Emit(m, e) == [m EXCEPT !.trace = Append(@, e)]

Range(f) == {f[i] : i \in DOMAIN f}

\* is_running (lines 176-182)
is_running(m) == m.node.running /\ m.contract.running

\* NodePoint with the block time read again for every participant.
NodePoint_reread(s, block_time, current_period, t) ==
    [staker_address |-> s,
     worker_address |-> get_worker_from_staker(s),
     start_date |-> stake_start_date(s),
     end_date |-> stake_end_date(s),
     stake |-> owned_tokens(s),
     locked_stake |-> get_locked_tokens(s),
     current_period |-> get_current_period(t),
     last_confirmed_period |-> get_last_active_period(s, t),
     timestamp |-> getBlock_timestamp(t)]

\* DB_LINE_PROTOCOL.format(...) (lines 117-128): one record of the batch.
\* block_time and current_period were read at the start of the cycle, t is
\* the clock when this participant is looked up.
NodePoint(s, block_time, current_period, t) ==
    [staker_address |-> s,
     worker_address |-> get_worker_from_staker(s),
     start_date |-> stake_start_date(s),
     end_date |-> stake_end_date(s),
     stake |-> owned_tokens(s),
     locked_stake |-> get_locked_tokens(s),
     current_period |-> current_period,
     last_confirmed_period |-> get_last_active_period(s, t),
     timestamp |-> block_time]

\* The clock when the i-th participant of a cycle begun at t0 is looked up.
LookupTime(t0, dur, i) == IF i > 1 /\ t0 < MaxTime THEN t0 + dur ELSE t0

\* write_points whose result is the number of points written, so that the
\* test of line 130 takes an accepted empty batch for a failure.
write_points_count(m, data, block_time) ==
    LET call(result) == [points |-> data, block_time |-> block_time,
                         result |-> result]
    IN  IF m.client = "null"
        THEN [Emit(m, "write_on_null") EXCEPT !.exc = "AttributeError",
                 !.writes = Append(@, call("no_client"))]
        ELSE IF m.nf > 0 /\ m.nkind = MaxNodes + 1
        THEN [Emit(m, "write_raised") EXCEPT !.exc = "StoreError", !.nf = @ - 1,
                 !.writes = Append(@, call("raised"))]
        ELSE IF m.wfalse
        THEN [Emit(Emit(m, "write_false"), "warn") EXCEPT
                 !.writes = Append(@, call("false"))]
        ELSE IF Len(data) = 0
        THEN [Emit(Emit(m, "write_ok"), "warn") EXCEPT
                 !.writes = Append(@, call("ok"))]
        ELSE [Emit(m, "write_ok") EXCEPT
                 !.stored = @ \cup Range(data),
                 !.writes = Append(@, call("ok"))]

\* write_points whose False result is raised instead of logged.
write_points_raise_on_false(m, data, block_time) ==
    LET call(result) == [points |-> data, block_time |-> block_time,
                         result |-> result]
    IN  IF m.client = "null"
        THEN [Emit(m, "write_on_null") EXCEPT !.exc = "AttributeError",
                 !.writes = Append(@, call("no_client"))]
        ELSE IF m.wfalse \/ (m.nf > 0 /\ m.nkind = MaxNodes + 1)
        THEN [Emit(m, "write_raised") EXCEPT !.exc = "StoreError",
                 !.writes = Append(@, call("false"))]
        ELSE [Emit(m, "write_ok") EXCEPT
                 !.stored = @ \cup Range(data),
                 !.writes = Append(@, call("ok"))]

\* self._client.write_points(data, ...) (lines 130-137)
write_points(m, data, block_time) ==
    LET call(result) == [points |-> data, block_time |-> block_time,
                         result |-> result]
    IN  IF m.client = "null"
        THEN [Emit(m, "write_on_null") EXCEPT !.exc = "AttributeError",
                 !.writes = Append(@, call("no_client"))]
        ELSE IF m.nf > 0 /\ m.nkind = MaxNodes + 1
        THEN [Emit(m, "write_raised") EXCEPT !.exc = "StoreError", !.nf = @ - 1,
                 !.writes = Append(@, call("raised"))]
        ELSE IF m.wfalse
        THEN [Emit(Emit(m, "write_false"), "warn") EXCEPT
                 !.writes = Append(@, call("false"))]
        ELSE [Emit(m, "write_ok") EXCEPT
                 !.stored = @ \cup Range(data),
                 !.writes = Append(@, call("ok"))]

\* _learn_about_nodes writing every record as soon as it is encoded.
learn_about_nodes_write_in_loop(m) ==
    LET block_time == getBlock_timestamp(m.now)
        current_period == get_current_period(m.now)
        n == Len(known_nodes)
        failAt == IF m.nf > 0 THEN m.nkind ELSE NoCall
        done == IF failAt \in 1..n THEN failAt - 1 ELSE IF failAt = 0 THEN 0 ELSE n
        data == [i \in 1..done |->
                    NodePoint(known_nodes[i], block_time, current_period,
                              LookupTime(m.now, m.dur, i))]
        m0 == [Emit(m, "node_body") EXCEPT
                  !.stored = @ \cup Range(data),
                  !.writes = @ \o [i \in 1..done |->
                                     [points |-> <<data[i]>>,
                                      block_time |-> block_time,
                                      result |-> "ok"]],
                  !.now = LookupTime(m.now, m.dur, done)]
    IN  IF failAt \in 0..n
        THEN [Emit(m0, "lookup_failed_at_" \o ToString(failAt)) EXCEPT
                 !.exc = "LookupError", !.nf = @ - 1]
        ELSE Emit(m0, "write_ok")

\* _learn_about_nodes (lines 85-137)
learn_about_nodes(m) ==
    LET block_time == getBlock_timestamp(m.now)
        current_period == get_current_period(m.now)
        n == Len(known_nodes)
        failAt == IF m.nf > 0 THEN m.nkind ELSE NoCall
        m0 == Emit(m, "node_body")
        mf == Emit(m0, "lookup_failed_at_" \o ToString(failAt))
    IN  IF failAt = 0
        THEN [mf EXCEPT !.exc = "LookupError", !.nf = @ - 1]
        ELSE IF failAt \in 1..n
        THEN [mf EXCEPT !.exc = "LookupError", !.nf = @ - 1,
                        !.now = LookupTime(m.now, m.dur, failAt)]
        ELSE LET data == [i \in 1..n |->
                            NodePoint(known_nodes[i], block_time, current_period,
                                      LookupTime(m.now, m.dur, i))]
                 m1 == [m0 EXCEPT !.now = LookupTime(m.now, m.dur, n)]
             IN  write_points(m1, data, block_time)

\* The dict of line 82 after the lookups of days 1..d of a cycle begun at
\* clock t: its keys are 1..d and its value at day is
\* get_all_locked_tokens(t, day), so the pair (t, d) stands for it.
token_counter(t, d) == [at |-> t, days |-> d]
Keys(tc) == 1..tc.days
Value(tc, day) == get_all_locked_tokens(tc.at, day)

\* .snapshot filled in place, one day at a time.
SnapshotDuring_in_place(snap, t, d) ==
    [k \in DOMAIN snap \cup {"future_locked_tokens"} |->
        IF k = "future_locked_tokens" THEN token_counter(t, d) ELSE snap[k]]

\* What .snapshot holds once the lookups of days 1..d of a cycle begun at
\* clock t are done: the comprehension of line 82 fills a local dict.
SnapshotDuring(snap, t, d) == snap

\* _learn_about_contracts (lines 80-83)
learn_about_contracts(m) ==
    LET failDay == IF m.cf > 0 THEN m.cday ELSE 0
        m0 == Emit(m, "contract_body")
    IN  IF failDay > 0
        THEN [m0 EXCEPT !.exc = "LookupError", !.cf = @ - 1,
                 !.seen = @ \cup {SnapshotDuring(m.snapshot, m.now, d) :
                                     d \in 0..(failDay - 1)}]
        ELSE LET new == [k \in DOMAIN m.snapshot \cup {"future_locked_tokens"} |->
                            IF k = "future_locked_tokens"
                            THEN token_counter(m.now, NumPeriods)
                            ELSE m.snapshot[k]]
             IN  [m0 EXCEPT !.snapshot = new,
                     !.seen = @ \cup {SnapshotDuring(m.snapshot, m.now, d) :
                                         d \in 0..NumPeriods} \cup {new}]

Body(t, m) == IF t = "node" THEN learn_about_nodes(m) ELSE learn_about_contracts(m)

\* ------------------------------------------------- twisted's LoopingCall
\* LoopingCall._scheduleFrom(when): the next call falls on the next multiple
\* of the interval counted from starttime.
scheduleFrom(lc, when) ==
    [lc EXCEPT !.call = IF lc.interval = 0 THEN when
                        ELSE when + (lc.interval - ((when - lc.starttime) % lc.interval))]

RECURSIVE start(_), handle_errors(_, _), fire_errbacks(_, _, _)

\* _handle_errors that restarts whatever restart_on_error says.
handle_errors_always(t, m) ==
    LET m0 == Emit(m, "handler_" \o t)
    IN  IF ~m0.node.running
        THEN start(Emit(m0, "handler_start"))
        ELSE Emit(m0, "handler_skip")

\* _handle_errors (lines 139-147), called for a failure of task t
handle_errors(t, m) ==
    LET m0 == Emit(m, "handler_" \o t)
    IN  IF restart_on_error
        THEN IF ~m0.node.running
             THEN start(Emit(m0, "handler_start"))
             ELSE Emit(m0, "handler_skip")
        ELSE Emit(m0, "critical")

\* Deferred.errback(failure) on a Deferred that carries n errbacks: the
\* first one runs; an errback that raises hands its failure to the next one,
\* one that returns ends the chain.  A failure nobody handles is only logged
\* when the Deferred is collected.
fire_errbacks(t, m, n) ==
    IF n = 0
    THEN [Emit(m, "unhandled") EXCEPT !.exc = "none"]
    ELSE LET r == handle_errors(t, [m EXCEPT !.exc = "none"])
         IN  IF r.exc = "none" THEN r ELSE fire_errbacks(t, r, n - 1)

\* LoopingCall.__call__: run the body; cb reschedules, eb stops the task and
\* fires the Deferred with the failure.
LoopingCall_call(t, m) ==
    LET r == Body(t, [m EXCEPT ![t].call = NoCall])
    IN  IF r.exc # "none"
        THEN LET n == r[t].errbacks
                 r1 == [Emit(r, t \o "_failed") EXCEPT ![t] = LoopingCall]
             IN  IF n = 0 THEN [r1 EXCEPT !.exc = "none"]
                 ELSE fire_errbacks(t, r1, n)
        ELSE [Emit(r, t \o "_ok") EXCEPT ![t] = scheduleFrom(@, r.now)]

\* LoopingCall.start(interval, now=True)
LoopingCall_start(t, m, interval) ==
    IF m[t].running
    THEN [Emit(m, "assert_" \o t) EXCEPT !.exc = "AssertionError"]
    ELSE LoopingCall_call(t, [Emit(m, "start_" \o t) EXCEPT
             ![t] = [running |-> TRUE, call |-> NoCall, starttime |-> m.now,
                     interval |-> interval, errbacks |-> 0]])

\* LoopingCall.stop()
LoopingCall_stop(t, m) ==
    IF ~m[t].running
    THEN [Emit(m, "assert_" \o t) EXCEPT !.exc = "AssertionError"]
    ELSE [Emit(m, "stop_" \o t) EXCEPT ![t] = LoopingCall]

\* deferred.addErrback(self._handle_errors) (lines 162-163): a Deferred that
\* already failed runs the errback at once, a pending one keeps it.
addErrback(t, m, failed) ==
    IF failed
    THEN [handle_errors(t, Emit(m, "errback_now_" \o t)) EXCEPT !.exc = "none"]
    ELSE [Emit(m, "attach_" \o t) EXCEPT ![t].errbacks = @ + 1]

\* start() without its guard.
start_guard_missing(m) == TRUE

\* The guard of start() (line 153)
start_guard(m) == ~is_running(m)

\* start (lines 149-163)
start(m) ==
    IF start_guard(m)
    THEN LET m1 == IF m.client = "null"
                   THEN [Emit(m, "open") EXCEPT !.client = "open"]
                   ELSE m
             m2 == LoopingCall_start("node", m1, refresh_rate)
             node_failed == ~m2.node.running
             m3 == LoopingCall_start("contract", m2, refresh_rate - offset)
             contract_failed == ~m3.contract.running
             m4 == addErrback("node", m3, node_failed)
         IN  IF m2.exc # "none" THEN m2
             ELSE IF m3.exc # "none" THEN m3
             ELSE addErrback("contract", m4, contract_failed)
    ELSE m

\* stop that leaves the contract learning task alone.
stop_node_only(m) ==
    IF is_running(m)
    THEN LoopingCall_stop("node", [Emit(m, "close") EXCEPT !.client = "null"])
    ELSE m

\* stop that releases the connection before it looks at the tasks.
stop_release_first(m) ==
    LET m1 == [Emit(m, "close") EXCEPT !.client = "null"]
        m2 == LoopingCall_stop("node", m1)
    IN  IF m.client = "null" THEN m
        ELSE IF ~is_running(m) THEN m1
        ELSE IF m2.exc # "none" THEN m2
        ELSE LoopingCall_stop("contract", m2)

\* stop (lines 165-174)
stop(m) ==
    IF is_running(m)
    THEN LET m1 == [Emit(m, "close") EXCEPT !.client = "null"]
             m2 == LoopingCall_stop("node", m1)
         IN  IF m.client = "null"
             THEN [Emit(m, "close_on_null") EXCEPT !.exc = "AttributeError"]
             ELSE IF m2.exc # "none" THEN m2
             ELSE LoopingCall_stop("contract", m2)
    ELSE m

\* ------------------------------------------------- the historical queries
\* No query has been made.
NoSeries == [query |-> "none", days |-> 0, result |-> [k \in {} |-> 0]]

\* A point of moe_network_info, as far as the queries read it: the tag, the
\* timestamp and the field locked_stake of the line of lines 117-128.
Point(s, t, v) == [staker_address |-> s, time |-> t, locked_stake |-> v]

\* write_points(...) of such a point: a point with the tag set and timestamp
\* of a stored one replaces it.
insert(points, p) ==
    {q \in points : q.staker_address # p.staker_address \/ q.time # p.time}
        \cup {p}

\* MayaDT.from_datetime(d).rfc3339(): the date and the time of day
rfc3339(t) == [date |-> t \div DayLen, time |-> t % DayLen]

\* MayaDT.from_rfc3339(text).datetime()
from_rfc3339(r) == r.date * DayLen + r.time

\* datetime(year=today.year, month=today.month, day=today.day, hour=0, ...)
midnight(today) == from_rfc3339([date |-> rfc3339(today).date, time |-> 0])

\* range_begin computed with days instead of days-1.
range_begin_one_more(range_end, days) == range_end - days * DayLen

\* range_begin (lines 201, 230)
range_begin(range_end, days) == range_end - (days - 1) * DayLen

\* The starts of the time(1d) buckets that meet [begin, end).
Buckets(begin, end) == {(t \div DayLen) * DayLen : t \in begin..(end - 1)}

\* The points of one staker_address in one bucket of the window
\* WHERE time >= begin AND time < end ... GROUP BY staker_address, time(1d)
Group(points, s, b, begin, end) ==
    {p \in points : /\ p.staker_address = s
                    /\ p.time >= begin /\ p.time < end
                    /\ p.time >= b /\ p.time < b + DayLen}

RECURSIVE Total(_)
\* The sum of the values of a finite set of [key, value] records.
Total(S) ==
    IF S = {} THEN 0
    ELSE LET x == CHOOSE y \in S : TRUE
         IN  x.value + Total(S \ {x})

\* The inner selector taken as the sum of the group's points.
LAST_as_total(group) ==
    Total({[key |-> p.time, value |-> p.locked_stake] : p \in group})

\* LAST(locked_stake) over a group that is not empty: the field of the point
\* with the greatest timestamp.
LAST(group) ==
    (CHOOSE p \in group : \A q \in group : q.time <= p.time).locked_stake

\* The rows of the inner query: one for every staker_address and bucket
\* that has points; a bucket without points yields a null, which SUM and
\* COUNT pass over.
InnerRows(points, begin, end) ==
    {[staker_address |-> s, time |-> b,
      locked_stake |-> LAST(Group(points, s, b, begin, end))]
        : <<s, b>> \in {x \in {p.staker_address : p \in points}
                                \X Buckets(begin, end) :
                           Group(points, x[1], x[2], begin, end) # {}}}

\* SELECT SUM(locked_stake) FROM (...) GROUP BY time(1d): one row per bucket
\* of the window, null where the bucket has no value.
SumRows(points, begin, end) ==
    {LET rows == {r \in InnerRows(points, begin, end) : r.time = b}
     IN  [time |-> rfc3339(b),
          sum |-> IF rows = {} THEN Null
                  ELSE Total({[key |-> r.staker_address,
                               value |-> r.locked_stake] : r \in rows})]
        : b \in Buckets(begin, end)}

\* COUNT that passes over rows whose locked stake is zero.
COUNT_nonzero(rows) == Cardinality({r \in rows : r.locked_stake # 0})

\* COUNT(staker_address) over the rows of one bucket
COUNT(rows) == Cardinality({r.staker_address : r \in rows})

\* SELECT COUNT(staker_address) FROM (...) GROUP BY time(1d)
CountRows(points, begin, end) ==
    {LET rows == {r \in InnerRows(points, begin, end) : r.time = b}
     IN  [time |-> rfc3339(b), count |-> COUNT(rows)]
        : b \in Buckets(begin, end)}

\* Python's truth of a query value: None and 0 are false.
truth(v) == v # Null /\ v # 0

\* The dict built by the loops of lines 218-222 and 245-249 from the time
\* and the value (r['sum'], r['count']) of every row.
as_dict(rows) ==
    LET kept == {r \in rows : truth(r.value)}
    IN  [k \in {from_rfc3339(r.time) : r \in kept} |->
            (CHOOSE r \in kept : from_rfc3339(r.time) = k).value]

\* get_historical_locked_tokens_over_range (lines 197-224)
get_historical_locked_tokens_over_range(days, points, today) ==
    LET range_end == midnight(today)
        begin == range_begin(range_end, days)
        results == SumRows(points, begin, range_end + DayLen)
    IN  as_dict({[time |-> r.time, value |-> r.sum] : r \in results})

\* get_historical_num_stakers_over_range (lines 226-250)
get_historical_num_stakers_over_range(days, points, today) ==
    LET range_end == midnight(today)
        begin == range_begin(range_end, days)
        results == CountRows(points, begin, range_end + DayLen)
    IN  as_dict({[time |-> r.time, value |-> r.count] : r \in results})

\* ---------------------------------------------------- the schema bootstrap
\* The policy of lines 72-76.
TargetPolicy ==
    [name |-> DB_RETENTION_POLICY_NAME, duration |-> DB_RETENTION_POLICY_PERIOD,
     replication |-> DB_RETENTION_POLICY_REPLICATION, database |-> DB_NAME,
     default |-> TRUE]

\* The store during one call: its databases and policies, the requests it
\* received, and the request fail at which the connection breaks.
Store(fail) ==
    [databases |-> databases, policies |-> retention_policies,
     trace |-> <<>>, exc |-> "none", fail |-> fail]

\* InfluxDBClient.create_database(dbname): CREATE DATABASE does nothing for a
\* database that exists.
create_database(st, dbname) ==
    IF st.fail = "create_database"
    THEN [Emit(st, "create_database") EXCEPT !.exc = "ConnectionError"]
    ELSE [Emit(st, "create_database") EXCEPT
             !.databases = IF dbname \in Range(@) THEN @ ELSE Append(@, dbname)]

\* InfluxDBClient.create_retention_policy(...): a new default policy takes
\* the default from the others of its database; the same policy again
\* changes nothing.
create_retention_policy(st, policy) ==
    IF st.fail = "create_retention_policy"
    THEN [Emit(st, "create_retention_policy") EXCEPT !.exc = "ConnectionError"]
    ELSE [Emit(st, "create_retention_policy") EXCEPT
             !.policies =
                 {IF p.database = policy.database /\ policy.default
                  THEN [p EXCEPT !.default = FALSE] ELSE p
                     : p \in {q \in @ : q.name # policy.name
                                          \/ q.database # policy.database}}
                 \cup {policy}]

\* _ensure_db_exists that creates without looking at the list.
ensure_db_exists_unchecked(st) ==
    LET s1 == IF st.fail = "get_list_database"
              THEN [Emit(st, "get_list_database") EXCEPT !.exc = "ConnectionError"]
              ELSE Emit(st, "get_list_database")
        s2 == create_database(s1, DB_NAME)
    IN  IF s1.exc # "none" THEN s1
        ELSE IF s2.exc # "none" THEN s2
        ELSE create_retention_policy(s2, TargetPolicy)

\* _ensure_db_exists (lines 64-78)
ensure_db_exists(st) ==
    LET s1 == IF st.fail = "get_list_database"
              THEN [Emit(st, "get_list_database") EXCEPT !.exc = "ConnectionError"]
              ELSE Emit(st, "get_list_database")
        db_list == s1.databases
        found_db == SelectSeq(db_list, LAMBDA db : db = DB_NAME)
        s2 == create_database(s1, DB_NAME)
    IN  IF s1.exc # "none" THEN s1
        ELSE IF Len(found_db) = 0
        THEN IF s2.exc # "none" THEN s2
             ELSE create_retention_policy(s2, TargetPolicy)
        ELSE Emit(s1, "already_exists")

\* ------------------------------------------------------------- the system
\* What the collaborators do during one operation.
\* The node body fails nf times in a row: at the block lookup (nkind 0), at
\* the lookups of the nkind-th participant, or in write_points (MaxNodes+1).
NodeEnvs ==
    {[nf |-> 0, nkind |-> 0]} \cup
    {[nf |-> k, nkind |-> 0] : k \in 1..MaxFaults} \cup
    {[nf |-> 1, nkind |-> x] : x \in 1..(MaxNodes + 1)}

\* The days on which a contract lookup may fail: early, or the very last.
FailDays == {1, 2, NumPeriods}

\* The contract body fails cf times in a row, at the lookup of day cday.
ContractEnvs ==
    {[cf |-> 0, cday |-> 0]} \cup
    {[cf |-> k, cday |-> 1] : k \in 1..MaxFaults} \cup
    {[cf |-> 1, cday |-> d] : d \in FailDays}

Envs ==
    {[nf |-> n.nf, nkind |-> n.nkind, cf |-> c.cf, cday |-> c.cday,
      wfalse |-> w, dur |-> d] :
        n \in NodeEnvs, c \in ContractEnvs, w \in BOOLEAN, d \in 0..1}

NoEnv == [nf |-> 0, nkind |-> 0, cf |-> 0, cday |-> 0, wfalse |-> FALSE, dur |-> 0]

\* The state after MoeBlockchainCrawler.__init__ (lines 42-58)
Init ==
    /\ node_learning_task = LoopingCall
    /\ contract_learning_task = LoopingCall
    /\ restart_on_error \in BOOLEAN
    /\ client = "open"
    /\ snapshot = NoSnapshot
    /\ known_nodes = <<>>
    /\ stored = {}
    /\ now = 0
    /\ reader_view = NoSnapshot
    /\ op = "init"
    /\ trace = <<>>
    /\ writes = <<>>
    /\ seen = {NoSnapshot}
    /\ raised = "none"
    /\ databases = <<DB_NAME>>
    /\ retention_policies = {TargetPolicy}
    /\ measurement = {}
    /\ series = NoSeries

\* The state an operation leaves behind.
Commit(name, m) ==
    /\ node_learning_task' = m.node
    /\ contract_learning_task' = m.contract
    /\ client' = m.client
    /\ snapshot' = m.snapshot
    /\ stored' = m.stored
    /\ now' = m.now
    /\ op' = name
    /\ trace' = m.trace
    /\ writes' = m.writes
    /\ seen' = m.seen
    /\ raised' = m.exc
    /\ reader_view' = NoSnapshot
    /\ UNCHANGED <<restart_on_error, known_nodes>>
    /\ UNCHANGED store_vars

\* A step of the environment leaves the crawler alone.
Quiet(name) ==
    /\ op' = name
    /\ trace' = <<>>
    /\ writes' = <<>>
    /\ stored' = {}
    /\ seen' = {snapshot}
    /\ raised' = "none"
    /\ UNCHANGED store_vars

\* A delayed call of task t is due.
Due(lc) == lc.running /\ lc.call # NoCall /\ lc.call <= now

\* The caller invokes crawler.start()
Start == \E env \in Envs : Commit("start", start(Machine(env)))

\* The caller invokes crawler.stop()
Stop == Commit("stop", stop(Machine(NoEnv)))

\* The reactor runs the due call of the node learning task
TickNode ==
    /\ Due(node_learning_task)
    /\ \E env \in Envs : Commit("tick_node", LoopingCall_call("node", Machine(env)))

\* The reactor runs the due call of the contract learning task
TickContract ==
    /\ Due(contract_learning_task)
    /\ \E env \in Envs :
          Commit("tick_contract", LoopingCall_call("contract", Machine(env)))

\* A second passes with no delayed call due
Advance ==
    /\ now < MaxTime
    /\ ~Due(node_learning_task)
    /\ ~Due(contract_learning_task)
    /\ now' = now + 1
    /\ Quiet("advance")
    /\ reader_view' = NoSnapshot
    /\ UNCHANGED <<node_learning_task, contract_learning_task, restart_on_error,
                   client, snapshot, known_nodes>>

\* Moe learns about one more node (known_nodes grows)
Learn ==
    /\ Len(known_nodes) < MaxNodes
    /\ known_nodes' = Append(known_nodes, Len(known_nodes) + 1)
    /\ Quiet("learn")
    /\ reader_view' = NoSnapshot
    /\ UNCHANGED <<node_learning_task, contract_learning_task, restart_on_error,
                   client, snapshot, now>>

\* An external reader took crawler.snapshot at some point of the operation
\* that just ran, or takes it now
Read ==
    /\ reader_view' \in seen
    /\ Quiet("read")
    /\ UNCHANGED <<node_learning_task, contract_learning_task, restart_on_error,
                   client, snapshot, known_nodes, now>>

Next == Start \/ Stop \/ TickNode \/ TickContract \/ Advance \/ Learn \/ Read

Spec == Init /\ [][Next]_vars

\* ---------------------------------------------------------------- helpers
Has(e) == \E i \in DOMAIN trace : trace[i] = e
Count(e) == Cardinality({i \in DOMAIN trace : trace[i] = e})
IsRunning == node_learning_task.running /\ contract_learning_task.running
\* Bodies of either task that failed during the operation
Failures == Count("node_failed") + Count("contract_failed")

\* ------------------------------------------------------------------ claims
\* C1: with restart_on_error true, whenever the body of either periodic task
\* fails and leaves that task not running, the failure handler invokes start()
\* and, once it has finished, both tasks are active again.  Stated for an
\* operation in which exactly one body failed.
C1_FullRestart ==
    (restart_on_error /\ Failures = 1)
        => (Has("handler_start") /\ IsRunning)

\* C2: with restart_on_error true, every task failure that leaves a task not
\* running makes the failure handler issue exactly one start() call.  Stated
\* for an operation in which exactly one body failed.
C2_ExactlyOneStart ==
    (restart_on_error /\ Failures = 1) => Count("handler_start") = 1

\* C3: start() called while is_running is false opens the store connection if
\* it was released and begins both periodic tasks, each firing immediately;
\* when it returns without a task failure both tasks are active and the
\* connection is open.  (The trace of a start() is empty exactly when its
\* guard found is_running true.)
C3_StartBeginsBoth ==
    (op = "start" /\ trace # <<>> /\ Failures = 0)
        => /\ Has("node_body") /\ Has("contract_body")
           /\ IsRunning
           /\ client = "open"
           /\ raised = "none"

\* C4: start() called while is_running is true changes nothing: no task is
\* started again, no connection is opened, no errback is attached, the pending
\* calls and intervals of both tasks stay as they are, and nothing is raised.
C4_StartWhileRunningIsNoOp ==
    [][(op' = "start" /\ IsRunning)
         => /\ UNCHANGED <<node_learning_task, contract_learning_task, client,
                           snapshot, now, restart_on_error, known_nodes>>
            /\ trace' = <<>> /\ writes' = <<>> /\ stored' = {}
            /\ raised' = "none"]_vars

C4_Witness ==
    /\ op = "start" /\ trace = <<>> /\ IsRunning
    /\ node_learning_task.errbacks = 1 /\ contract_learning_task.errbacks = 1

\* C5: stop() called while is_running is true stops both tasks and releases
\* the connection, so that no call of either task stays pending; stop() called
\* while is_running is false changes nothing and raises nothing; and a task
\* that is not running never ticks.
C5_Stop ==
    [][/\ (op' = "stop" /\ IsRunning)
            => /\ node_learning_task' = LoopingCall
               /\ contract_learning_task' = LoopingCall
               /\ client' = "null"
               /\ raised' = "none"
       /\ (op' = "stop" /\ ~IsRunning)
            => /\ UNCHANGED <<node_learning_task, contract_learning_task,
                              client, snapshot, now, restart_on_error,
                              known_nodes>>
               /\ trace' = <<>> /\ raised' = "none"
       /\ (op' = "tick_node" => node_learning_task.running)
       /\ (op' = "tick_contract" => contract_learning_task.running)]_vars

C5_Witness ==
    /\ op = "stop" /\ Has("stop_node") /\ Has("stop_contract")
    /\ client = "null" /\ ~IsRunning

\* C6: with restart_on_error false a failure of either task's body is only
\* logged: the handler issues no start(), the failed task is left stopped and
\* stays so until an operation start() runs, and the tick that failed changes
\* neither the other task, nor the connection, nor the snapshot, nor the store.
C6_NoRestart ==
    [][(~restart_on_error)
         => /\ ~Has("handler_start")'
            /\ (op' = "tick_node" /\ Has("node_failed")')
                 => /\ node_learning_task' = LoopingCall
                    /\ UNCHANGED <<contract_learning_task, client, snapshot>>
                    /\ stored' = {}
            /\ (op' = "tick_contract" /\ Has("contract_failed")')
                 => /\ contract_learning_task' = LoopingCall
                    /\ UNCHANGED <<node_learning_task, client, snapshot, now>>
                    /\ stored' = {}
            /\ (~node_learning_task.running /\ node_learning_task'.running)
                 => op' = "start"
            /\ (~contract_learning_task.running /\ contract_learning_task'.running)
                 => op' = "start"]_vars

C6_Witness ==
    /\ ~restart_on_error /\ op = "tick_node" /\ Has("node_failed")
    /\ ~node_learning_task.running /\ contract_learning_task.running

\* Each body of the node task either fails in a lookup or calls write_points
\* exactly once.
LookupFailures == Cardinality({i \in DOMAIN trace :
                     \E k \in 0..MaxNodes : trace[i] = "lookup_failed_at_" \o ToString(k)})

\* C7: no partial cycle is persisted: every node body of an operation either
\* fails in a lookup and writes nothing, or submits one batch holding a record
\* of every known participant; what the store gained is exactly the batches it
\* accepted.
C7_AllOrNothing ==
    /\ Count("node_body") = Len(writes) + LookupFailures
    /\ \A i \in DOMAIN writes :
          {p.staker_address : p \in Range(writes[i].points)} = Range(known_nodes)
    /\ stored = UNION {Range(writes[i].points) :
                          i \in {j \in DOMAIN writes : writes[j].result = "ok"}}

C7_Witness ==
    /\ op = "tick_node" /\ Len(known_nodes) = 2
    /\ trace = <<"node_body", "lookup_failed_at_2", "node_failed",
                 "handler_node", "critical">>
    /\ stored = {}

\* C8: when write_points returns False the body logs a warning and returns:
\* the batch is not stored and not submitted again, the body does not fail, so
\* no handler runs for it, and the node task stays running with its next call
\* pending on the next multiple of its interval.
C8_WriteFalseIsDropped ==
    (\E i \in DOMAIN writes : writes[i].result = "false")
        => /\ \A i \in DOMAIN trace :
                 trace[i] = "warn"
                    => /\ i > 1 /\ trace[i - 1] = "write_false"
                       /\ i < Len(trace) /\ trace[i + 1] = "node_ok"
           /\ Count("warn") = Count("node_body") - Count("node_failed")
           /\ Count("warn") = Cardinality({i \in DOMAIN writes :
                                              writes[i].result = "false"})
           /\ Failures = 0 => (Len(writes) = 1 /\ ~Has("handler_node")
                                               /\ ~Has("handler_contract"))
           /\ stored = {}
           /\ node_learning_task.running
           /\ node_learning_task.call > now
           /\ node_learning_task.call <= now + node_learning_task.interval
           /\ (node_learning_task.call - node_learning_task.starttime)
                 % node_learning_task.interval = 0

C8_Witness ==
    /\ op = "tick_node" /\ Has("warn") /\ Len(known_nodes) = 2
    /\ node_learning_task.running

\* C9: the first batch of an operation that runs the node body holds one
\* record per known participant, each for a different staker, all carrying the
\* block time and the period read when the operation began; every later batch
\* of the operation is uniform in the same way.
C9_OneSampleTime ==
    [][(op' \in {"start", "tick_node"})
         => \A i \in DOMAIN writes' :
              LET w == writes'[i]
              IN  /\ Len(w.points) = Len(known_nodes)
                  /\ \A a, b \in DOMAIN w.points :
                        w.points[a].staker_address = w.points[b].staker_address
                            => a = b
                  /\ \A a \in DOMAIN w.points :
                        /\ w.points[a].timestamp = w.block_time
                        /\ w.points[a].current_period
                              = get_current_period(w.block_time)
                  /\ (i = 1 /\ LookupFailures' = 0)
                        => w.block_time = getBlock_timestamp(now)]_vars

\* The period advanced between the first and the second participant.
C9_Witness ==
    /\ Len(writes) = 1 /\ Len(writes[1].points) = 2
    /\ writes[1].result = "ok"
    /\ writes[1].points[2].last_confirmed_period
          > writes[1].points[2].current_period
    /\ writes[1].points[1].timestamp = writes[1].points[2].timestamp

\* A snapshot dict that is empty or holds the 365 keys 1..365.
Complete(v) ==
    \/ DOMAIN v = {}
    \/ /\ DOMAIN v = {"future_locked_tokens"}
       /\ Keys(v["future_locked_tokens"]) = 1..NumPeriods

\* C10: whatever a reader takes from .snapshot, during or between contract
\* cycles, is the empty dict of before the first cycle or holds the complete
\* mapping of days 1..365; and an operation whose contract cycles all failed
\* leaves .snapshot as it was.
C10_SnapshotAtomic ==
    /\ \A v \in seen \cup {snapshot, reader_view} : Complete(v)
    /\ snapshot \in seen
    /\ (Has("contract_failed") /\ ~Has("contract_ok")) => seen = {snapshot}

C10_Witness ==
    /\ op = "tick_contract" /\ Has("contract_failed")
    /\ snapshot # NoSnapshot

\* C15: a node cycle over zero known participants submits one empty batch,
\* and an empty batch the store accepts is no failure: the body returns right
\* after the write, with no warning, no failure of the node task and no
\* handler run for it, and the node task stays running.
C15_EmptyBatchIsNoFailure ==
    (Len(known_nodes) = 0 /\ Has("node_body"))
        => /\ Count("node_body") = Len(writes) + LookupFailures
           /\ \A i \in DOMAIN writes : writes[i].points = <<>>
           /\ \A i \in DOMAIN trace :
                 trace[i] = "write_ok"
                    => i < Len(trace) /\ trace[i + 1] = "node_ok"
           /\ (\A i \in DOMAIN writes : writes[i].result = "ok")
                 => /\ ~Has("warn")
                    /\ Count("node_failed") = LookupFailures
                    /\ Count("handler_node") <= LookupFailures
                    /\ stored = {}
           /\ (Has("write_ok") => node_learning_task.running)

C15_Witness ==
    /\ op = "tick_node" /\ known_nodes = <<>>
    /\ trace = <<"node_body", "write_ok", "node_ok">>
    /\ Len(writes) = 1 /\ writes[1].points = <<>>
    /\ node_learning_task.running

\* C16: the connection is released before it is reacquired. An operation
\* opens a connection only from a state that holds none, and opens one only;
\* only stop() releases it, and it releases a connection that is held; while
\* no connection is held neither task runs, and no node body reaches its
\* write without a connection.
C16_ReleaseBeforeReacquire ==
    [][ /\ Has("open")' => client = "null" /\ Count("open")' = 1
                              /\ op' = "start" /\ client' = "open"
        /\ Has("close")' => client = "open" /\ Count("close")' = 1
                               /\ op' = "stop" /\ client' = "null"
        /\ client' # client => Has("open")' \/ Has("close")'
        /\ ~Has("write_on_null")' /\ ~Has("close_on_null")'
        /\ \A i \in DOMAIN writes' : writes'[i].result # "no_client"
        /\ client' = "null" => /\ ~node_learning_task'.running
                               /\ ~contract_learning_task'.running ]_vars

C16_Witness ==
    /\ op = "start" /\ Has("open") /\ client = "open"
    /\ Has("write_ok") /\ IsRunning

\* C17: with restart_on_error set, every failure of the node task is
\* followed by another restart: after each "node_failed" of an operation
\* the handler starts the crawler again.
C17_EveryFailureRestarts ==
    restart_on_error
        => \A i \in DOMAIN trace :
              trace[i] = "node_failed"
                 => \E j \in (i + 1)..Len(trace) : trace[j] = "handler_start"

\* C18: once stop() has returned neither task is running, whatever the state
\* it was called in, a state with only one task left running included.
C18_StopStopsBoth ==
    op = "stop"
        => ~node_learning_task.running /\ ~contract_learning_task.running

\* C19: no operation calls LoopingCall.start on a task that is running: the
\* assertion of LoopingCall.start never fails, neither in a start() by the
\* user nor in the restart after one task's failure.
C19_NeverStartsRunningTask ==
    ~Has("assert_node") /\ ~Has("assert_contract")

\* ------------------------------------------- the store before construction
\* Databases of other tenants of the store.
OtherDatabases == {"_internal", "telegraf", "chronograf"}

\* Where the connection may break during one construction.
FailPoints ==
    {"none", "get_list_database", "create_database", "create_retention_policy"}

\* A store that does not hold the crawler's database yet.
SchemaInit ==
    /\ node_learning_task = LoopingCall
    /\ contract_learning_task = LoopingCall
    /\ restart_on_error \in BOOLEAN
    /\ client = "open"
    /\ snapshot = NoSnapshot
    /\ known_nodes = <<>>
    /\ stored = {}
    /\ now = 0
    /\ reader_view = NoSnapshot
    /\ op = "init"
    /\ trace = <<>>
    /\ writes = <<>>
    /\ seen = {NoSnapshot}
    /\ raised = "none"
    /\ databases \in {<<>>, <<"_internal">>}
    /\ retention_policies = {}
    /\ measurement = {}
    /\ series = NoSeries

\* MoeBlockchainCrawler(...) is constructed: line 56 calls _ensure_db_exists
Construct ==
    \E fail \in FailPoints :
        LET st == ensure_db_exists(Store(fail))
        IN  /\ databases' = st.databases
            /\ retention_policies' = st.policies
            /\ op' = "ensure_db_exists"
            /\ trace' = st.trace
            /\ raised' = st.exc
            /\ UNCHANGED <<crawler_vars, now, measurement, series>>

\* Somebody else creates a database in the same store
CreateOther ==
    \E name \in OtherDatabases :
        /\ name \notin Range(databases)
        /\ databases' = Append(databases, name)
        /\ op' = "create_other"
        /\ trace' = <<>>
        /\ raised' = "none"
        /\ UNCHANGED <<crawler_vars, now, retention_policies, measurement, series>>

\* An administrator drops a database, and its policies with it
DropDatabase ==
    \E name \in Range(databases) :
        /\ databases' = SelectSeq(databases, LAMBDA db : db # name)
        /\ retention_policies' = {p \in retention_policies : p.database # name}
        /\ op' = "drop_database"
        /\ trace' = <<>>
        /\ raised' = "none"
        /\ UNCHANGED <<crawler_vars, now, measurement, series>>

SchemaNext == Construct \/ CreateOther \/ DropDatabase

SchemaSpec == SchemaInit /\ [][SchemaNext]_vars

\* The entries of the database list that name the crawler's database.
TargetDatabases(dbs) == {i \in DOMAIN dbs : dbs[i] = DB_NAME}

\* The policies of the crawler's database.
PoliciesOfTarget(ps) == {p \in ps : p.database = DB_NAME}

\* C11: the schema bootstrap is idempotent. After a call the store holds at
\* most one database of the crawler's name and at most one retention policy
\* for it, exactly one database when the call returned; a call that finds
\* the database sends nothing but the list request and leaves the store as
\* it was; and no call touches the databases of others.
C11_EnsureIsIdempotent ==
    [][ op' = "ensure_db_exists"
        => /\ Cardinality(TargetDatabases(databases')) <= 1
           /\ Cardinality(PoliciesOfTarget(retention_policies')) <= 1
           /\ raised' = "none" => Cardinality(TargetDatabases(databases')) = 1
           /\ (TargetDatabases(databases) # {} /\ raised' = "none")
                 => /\ trace' = <<"get_list_database", "already_exists">>
                    /\ databases' = databases
                    /\ retention_policies' = retention_policies
           /\ TargetDatabases(databases) # {}
                 => /\ ~Has("create_database")'
                    /\ ~Has("create_retention_policy")'
                    /\ UNCHANGED <<databases, retention_policies>>
           /\ SelectSeq(databases', LAMBDA db : db # DB_NAME)
                 = SelectSeq(databases, LAMBDA db : db # DB_NAME) ]_vars

C11_Witness ==
    /\ op = "ensure_db_exists"
    /\ trace = <<"get_list_database", "already_exists">>
    /\ Cardinality(TargetDatabases(databases)) = 1
    /\ retention_policies = {TargetPolicy}
    /\ Len(databases) >= 2

\* C20: whenever _ensure_db_exists returns, the database exists and carries
\* the retention policy of lines 72-76 (5w, replication 1, default), after any
\* sequence of earlier calls.
C20_ReturnImpliesPolicy ==
    (op = "ensure_db_exists" /\ raised = "none")
        => /\ DB_NAME \in Range(databases)
           /\ TargetPolicy \in retention_policies

\* ------------------------------------------- the store read by the queries
\* The longest range a query asks for, in days.
MaxDays == 2
\* The most points the measurement holds.
MaxSamples == 3

\* The participants whose points are in the store.
Stakers == {1, 2}

\* The locked stake a participant may have at a sample: none, or some.
LockedStakes == {0, 5}

\* A constructed crawler and an empty measurement.
QueryInit ==
    /\ node_learning_task = LoopingCall
    /\ contract_learning_task = LoopingCall
    /\ restart_on_error \in BOOLEAN
    /\ client = "open"
    /\ snapshot = NoSnapshot
    /\ known_nodes = <<>>
    /\ stored = {}
    /\ now = 0
    /\ reader_view = NoSnapshot
    /\ op = "init"
    /\ trace = <<>>
    /\ writes = <<>>
    /\ seen = {NoSnapshot}
    /\ raised = "none"
    /\ databases = <<DB_NAME>>
    /\ retention_policies = {TargetPolicy}
    /\ measurement = {}
    /\ series = NoSeries

\* What a step of the query model leaves alone.
QueryQuiet(name) ==
    /\ op' = name
    /\ UNCHANGED <<crawler_vars, trace, raised, databases, retention_policies>>

\* A node cycle stores the point of one participant, stamped with the block
\* time
Sample ==
    \E s \in Stakers, v \in LockedStakes :
        /\ measurement' = insert(measurement, Point(s, getBlock_timestamp(now), v))
        /\ Cardinality(measurement') <= MaxSamples
        /\ series' = NoSeries
        /\ QueryQuiet("sample")
        /\ UNCHANGED now

\* A second passes
Tick ==
    /\ now < MaxTime
    /\ now' = now + 1
    /\ series' = NoSeries
    /\ QueryQuiet("tick")
    /\ UNCHANGED measurement

\* A dashboard asks for the locked tokens of the last days
QueryLockedTokens ==
    \E days \in 1..MaxDays :
        /\ series' = [query |-> "locked_tokens", days |-> days,
                      result |-> get_historical_locked_tokens_over_range(
                                     days, measurement, now)]
        /\ QueryQuiet("locked_tokens")
        /\ UNCHANGED <<now, measurement>>

\* A dashboard asks for the number of stakers of the last days
QueryNumStakers ==
    \E days \in 1..MaxDays :
        /\ series' = [query |-> "num_stakers", days |-> days,
                      result |-> get_historical_num_stakers_over_range(
                                     days, measurement, now)]
        /\ QueryQuiet("num_stakers")
        /\ UNCHANGED <<now, measurement>>

QueryNext == Sample \/ Tick \/ QueryLockedTokens \/ QueryNumStakers

QuerySpec == QueryInit /\ [][QueryNext]_vars

\* The day of a timestamp, and the timestamp of its midnight.
DayOf(t) == t \div DayLen
MidnightOf(d) == d * DayLen

\* The points of participant s stamped on day d.
SampledOn(s, d) ==
    {p \in measurement : p.staker_address = s /\ DayOf(p.time) = d}

\* The participants with a point on day d.
StakersOn(d) == {s \in Stakers : SampledOn(s, d) # {}}

\* The locked stake of the point of s that is the latest of day d.
LatestOn(s, d) ==
    LET latest == CHOOSE p \in SampledOn(s, d) :
                      \A q \in SampledOn(s, d) : q.time <= p.time
    IN  latest.locked_stake

\* The sum over the participants of day d of their latest locked stake.
LockedOn(d) == Total({[key |-> s, value |-> LatestOn(s, d)] : s \in StakersOn(d)})

\* The days the last query asked for: series.days days, ending today.
RequestedDays == {DayOf(now) - k : k \in 0..(series.days - 1)}

\* The requested days that have a point.
DaysWithData == {d \in RequestedDays : StakersOn(d) # {}}

\* C12: every day that get_historical_locked_tokens_over_range returns maps
\* to the sum, over the participants sampled that day, of the locked stake of
\* the participant's latest point of that day, never of all its points.
C12_SumOfLatest ==
    op = "locked_tokens"
        => \A k \in DOMAIN series.result :
              /\ k = MidnightOf(DayOf(k))
              /\ series.result[k] = LockedOn(DayOf(k))

C12_Witness ==
    /\ op = "locked_tokens"
    /\ \E k \in DOMAIN series.result :
          /\ Cardinality(StakersOn(DayOf(k))) = 2
          /\ \E s \in Stakers : \E p, q \in SampledOn(s, DayOf(k)) :
                /\ p.time < q.time
                /\ p.locked_stake # 0 /\ q.locked_stake # 0
          /\ series.result[k] = 10

\* C13 as stated: with data on exactly k of the requested days the locked
\* tokens series has exactly k entries, one at the midnight of every
\* requested day that has data.
C13_OneEntryPerDayWithData ==
    op = "locked_tokens"
        => DOMAIN series.result = {MidnightOf(d) : d \in DaysWithData}

\* C13, amended: the locked tokens series has one entry at the midnight of
\* every requested day that has data with a locked sum other than zero, and
\* no other entry: days without data and days whose sum is zero are absent,
\* and no entry has the value 0 or lies outside the requested days.
C13_OneEntryPerDayWithStake ==
    op = "locked_tokens"
        => /\ DOMAIN series.result =
                 {MidnightOf(d) : d \in {x \in DaysWithData : LockedOn(x) # 0}}
           /\ \A k \in DOMAIN series.result :
                 /\ series.result[k] # 0
                 /\ DayOf(k) \in RequestedDays
                 /\ DayOf(k) <= DayOf(now)
                 /\ DayOf(k) > DayOf(now) - series.days

C13_Witness ==
    /\ op = "locked_tokens"
    /\ series.days = 1
    /\ Cardinality(DOMAIN series.result) = 1
    /\ \E p \in measurement : DayOf(p.time) < DayOf(now) /\ p.locked_stake # 0

\* C14: get_historical_num_stakers_over_range returns no day with count 0;
\* the count of a returned day is the number of participants with a point on
\* that day, a participant whose latest locked stake is zero included; and
\* every requested day with data is returned, also one that the locked
\* tokens series leaves out because its sum is zero.
C14_CountsSampledStakers ==
    op = "num_stakers"
        => /\ \A k \in DOMAIN series.result :
                 /\ series.result[k] # 0
                 /\ series.result[k] = Cardinality(StakersOn(DayOf(k)))
           /\ DOMAIN series.result = {MidnightOf(d) : d \in DaysWithData}

C14_Witness ==
    /\ op = "num_stakers"
    /\ \E k \in DOMAIN series.result :
          /\ series.result[k] = 2
          /\ \E s \in StakersOn(DayOf(k)) :
                /\ LatestOn(s, DayOf(k)) = 0
                /\ Cardinality(SampledOn(s, DayOf(k))) = 2
          /\ LockedOn(DayOf(k)) = 5

====
